---- MODULE Spec2Model ----
(***************************************************************************)
(* A model of AllowedExtensionsService and FocusTracker                    *)
(* (src/vs/platform/extensionManagement/common/allowedExtensionsService.ts)*)
(* and of the blame cache of GitBlameController                            *)
(* (extensions/git/src/blame.ts)                                           *)
(*                                                                         *)
(* JavaScript values are records tagged with their type, so that the       *)
(* dynamic type tests of the code (isObject, isBoolean, Array.isArray,     *)
(* === 'release', === true) are real tests in the model.                   *)
(* Strings are sequences of one-character strings, so that toLowerCase,    *)
(* indexOf, substring and the VersionRegex are computed, not assumed.      *)
(* Dictionaries are looked up by their own keys only.                      *)
(*                                                                         *)
(* Each object has its own specification; in the specification of one      *)
(* object the others stay as their constructors left them.                 *)
(***************************************************************************)
EXTENDS Integers, Sequences, FiniteSets, TLC

VARIABLES
    \* AllowedExtensionsService
    configuration,      \* configurationService.getValue(AllowedExtensionsConfigKey)
    allowedExtensions,  \* this.allowedExtensions
    publisherMappings,  \* this.publisherMappings
    fired,              \* number of _onDidChangeAllowedExtensions.fire() calls made
                        \* by the latest run of the configuration listener
    extension,          \* the argument of isAllowed, when the latest step is a call
                        \* of it (undefined otherwise)
    result,             \* the value that call returned
    affects,            \* what e.affectsConfiguration(AllowedExtensionsConfigKey)
                        \* answered for the latest event (undefined before any)
    pending,            \* the statements the running configuration listener has
                        \* still to execute (empty when none runs)
    seen,               \* this.allowedExtensions as the listeners of
                        \* onDidChangeAllowedExtensions found it, one entry for each
                        \* firing of the latest run of the configuration listener
    \* FocusTracker
    isFocused,          \* this._isFocused
    focusChanges,       \* the arguments of the calls of this._onFocusChange so far
    dispatched,         \* the 'focus' and 'blur' events dispatched on _domNode so far
    disposed,           \* dispose() has removed the two listeners
    \* GitBlameController
    repositories,                \* the repositories this._model has open
    repositoryDisposables,       \* the keys of this._repositoryDisposables
    repositoryBlameInformation,  \* this._repositoryBlameInformation
    textEditorBlameInformation,  \* the keys of this.textEditorBlameInformation
    blameCall                    \* the call of _getBlameInformation that awaits
                                 \* repository.blame2 (undefined when none does)

serviceVars ==
    <<configuration, allowedExtensions, publisherMappings, fired, extension, result,
      affects, pending, seen>>

focusVars == <<isFocused, focusChanges, dispatched, disposed>>

blameVars ==
    <<repositories, repositoryDisposables, repositoryBlameInformation,
      textEditorBlameInformation, blameCall>>

vars == <<serviceVars, focusVars, blameVars>>

(***************************************************************************)
(* Bounds of the model                                                     *)
(***************************************************************************)
\* largest number of entries of a configured mapping
MaxEntries == 2
\* largest number of version descriptors in the list of SpecVersions
MaxVersions == 2
\* largest number of 'focus' and 'blur' events dispatched in SpecFocus
MaxDomEvents == 6

(***************************************************************************)
(* JavaScript values                                                       *)
(***************************************************************************)
Undefined == [t |-> "undefined"]
Null == [t |-> "null"]
Bool(b) == [t |-> "boolean", bool |-> b]
Num(n) == [t |-> "number", num |-> n]
Str(s) == [t |-> "string", str |-> s]
Arr(a) == [t |-> "array", items |-> a]
\* an object literal: the sequence of its [k, v] entries, in insertion order
Obj(entries) == [t |-> "object", entries |-> entries]
\* a dictionary built by Object.fromEntries: a function on its keys
Dict(f) == [t |-> "dictionary", at |-> f]

isUndefined(x) == x.t = "undefined"
isBoolean(x) == x.t = "boolean"
isObject(x) == x.t = "object"
isArray(x) == x.t = "array"
\* x === s for a string literal s
EqString(x, s) == x.t = "string" /\ x.str = s
\* x === true
EqTrue(x) == x.t = "boolean" /\ x.bool = TRUE

(***************************************************************************)
(* Strings                                                                 *)
(***************************************************************************)
UpperCase == <<"A", "B", "C", "D", "E", "F", "G", "H", "I", "J", "K", "L", "M",
               "N", "O", "P", "Q", "R", "S", "T", "U", "V", "W", "X", "Y", "Z">>
LowerCase == <<"a", "b", "c", "d", "e", "f", "g", "h", "i", "j", "k", "l", "m",
               "n", "o", "p", "q", "r", "s", "t", "u", "v", "w", "x", "y", "z">>
Digit == {"0", "1", "2", "3", "4", "5", "6", "7", "8", "9"}

toLowerChar(c) ==
    IF \E k \in DOMAIN UpperCase : UpperCase[k] = c
    THEN LowerCase[CHOOSE k \in DOMAIN UpperCase : UpperCase[k] = c]
    ELSE c

toLowerCase(s) == [i \in 1..Len(s) |-> toLowerChar(s[i])]

\* s.indexOf(c): the 0-based index of the first c, -1 when there is none
indexOf(s, c) ==
    IF \E i \in 1..Len(s) : s[i] = c
    THEN (CHOOSE i \in 1..Len(s) : s[i] = c /\ \A j \in 1..(i - 1) : s[j] # c) - 1
    ELSE -1

\* s.substring(a, b): negative arguments count as 0, arguments past the end
\* as the length, and the two are swapped when a > b
substring(s, a, b) ==
    LET clamp(x) == IF x < 0 THEN 0 ELSE IF x > Len(s) THEN Len(s) ELSE x
        lo == IF clamp(a) <= clamp(b) THEN clamp(a) ELSE clamp(b)
        hi == IF clamp(a) <= clamp(b) THEN clamp(b) ELSE clamp(a)
    IN SubSeq(s, lo + 1, hi)

(***************************************************************************)
(* Dictionaries (IStringDictionary): functions from their own keys         *)
(***************************************************************************)
\* d[key]: undefined when d has no such key
Get(d, key) == IF key \in DOMAIN d THEN d[key] ELSE Undefined

\* Object.fromEntries(entries): for a repeated key the last entry wins
fromEntries(entries) ==
    [key \in {entries[i].k : i \in 1..Len(entries)} |->
        LET last == CHOOSE i \in 1..Len(entries) :
                        /\ entries[i].k = key
                        /\ \A j \in (i + 1)..Len(entries) : entries[j].k # key
        IN entries[last].v]

(***************************************************************************)
(* The VersionRegex constant                                               *)
(***************************************************************************)
\* const VersionRegex = /^(?<version>\d+\.\d+\.\d+(-.*)?)(@(?<platform>.+))?$/
\* the characters "." does not match
LineTerminator == {"\n", "\r"}

NoLineTerminator(s) == \A i \in 1..Len(s) : s[i] \notin LineTerminator

\* \d+ from index i on: the index after the longest run of digits (i when
\* there is none).  Giving digits back can never help the expression match:
\* each \d+ is followed by ".", "-", "@" or the end, none of them a digit.
DigitsEnd(s, i) ==
    CHOOSE j \in i..(Len(s) + 1) :
        /\ \A k \in i..(j - 1) : s[k] \in Digit
        /\ j = Len(s) + 1 \/ s[j] \notin Digit

\* ^\d+\.\d+\.\d+ : the index after the prefix, 0 when s does not start so
CoreEnd(s) ==
    LET a == DigitsEnd(s, 1) IN
    IF a = 1 \/ a > Len(s) \/ s[a] # "." THEN 0
    ELSE LET b == DigitsEnd(s, a + 1) IN
         IF b = a + 1 \/ b > Len(s) \/ s[b] # "." THEN 0
         ELSE LET c == DigitsEnd(s, b + 1) IN
              IF c = b + 1 THEN 0 ELSE c

\* VersionRegex.exec(s): null, or the match with its named groups.
\*  - (-.*)? is greedy and is tried before (@...)?: once a "-" follows the
\*    three numbers, ".*" takes the whole rest of the string, an "@" in it
\*    included, the optional platform group matches nothing and $ holds; so
\*    the first match found has the whole string as version and no platform.
\*  - without a "-", an "@" must follow, then one character or more.
\*  - a line terminator anywhere after the numbers makes the match fail.
VersionRegex(s) ==
    LET k == CoreEnd(s) IN
    IF k = 0 THEN Null
    ELSE IF k > Len(s)
         THEN [t |-> "match", groups |-> [version |-> s, platform |-> Undefined]]
    ELSE IF s[k] = "-" /\ NoLineTerminator(SubSeq(s, k + 1, Len(s)))
         THEN [t |-> "match", groups |-> [version |-> s, platform |-> Undefined]]
    ELSE IF s[k] = "@" /\ k < Len(s) /\ NoLineTerminator(SubSeq(s, k + 1, Len(s)))
         THEN [t |-> "match",
               groups |-> [version |-> SubSeq(s, 1, k - 1),
                           platform |-> Str(SubSeq(s, k + 1, Len(s)))]]
    ELSE Null

(***************************************************************************)
(* String constants of the program                                         *)
(***************************************************************************)
\* '*'
Star == <<"*">>
\* 'release'
Release == <<"r", "e", "l", "e", "a", "s", "e">>
\* TargetPlatform.UNIVERSAL
UNIVERSAL == <<"u", "n", "i", "v", "e", "r", "s", "a", "l">>

(***************************************************************************)
(* Return values of isAllowed: true or an IMarkdownString, identified by   *)
(* the key of its localized message                                        *)
(***************************************************************************)
True == Bool(TRUE)
MarkdownString(key) == [t |-> "MarkdownString", key |-> key]
extensionReason == MarkdownString("specific extension not allowed")
extensionPrereleaseReason == MarkdownString("extension prerelease not allowed")
publisherReason == MarkdownString("publisher not allowed")
publisherPrereleaseReason ==
    MarkdownString("prerelease versions from this publisher not allowed")

(***************************************************************************)
(* The three shapes of the argument of isAllowed                           *)
(***************************************************************************)
isGalleryExtension(e) == "type" \in DOMAIN e /\ e.type = "gallery"

isIExtension(e) == "type" \in DOMAIN e /\ e.type \in {"User", "System"}

\* x ?? d for an optional string or boolean field
OrElse(x, d) ==
    IF x.t \in {"undefined", "null"} THEN d
    ELSE IF x.t = "string" THEN x.str ELSE x.bool

\* the five fields isAllowed reads from its argument
Fields(e) ==
    IF isGalleryExtension(e)
    THEN [id |-> toLowerCase(e.identifier.id),
          version |-> e.version,
          prerelease |-> e.properties.isPreReleaseVersion,
          publisher |-> toLowerCase(e.publisher),
          targetPlatform |-> e.properties.targetPlatform]
    ELSE IF isIExtension(e)
    THEN [id |-> toLowerCase(e.identifier.id),
          version |-> e.manifest.version,
          prerelease |-> e.preRelease,
          publisher |-> toLowerCase(e.manifest.publisher),
          targetPlatform |-> e.targetPlatform]
    ELSE [id |-> toLowerCase(e.id),
          version |-> OrElse(e.version, Star),
          targetPlatform |-> OrElse(e.targetPlatform, UNIVERSAL),
          prerelease |-> OrElse(e.prerelease, FALSE),
          publisher |-> toLowerCase(substring(e.id, 0, indexOf(e.id, ".")))]

(***************************************************************************)
(* AllowedExtensionsService                                                *)
(***************************************************************************)
\* the constructor's loop over productService.extensionPublisherMappings
lowerCaseMappings(mappings) ==
    fromEntries([i \in 1..Len(mappings) |->
                    [k |-> toLowerCase(mappings[i].k), v |-> toLowerCase(mappings[i].v)]])

\* getAllowedExtensionsValue with the collapse applied to every mapping that
\* has '*': true, whatever else it has
getAllowedExtensionsValue_anyStar(value) ==
    IF ~isObject(value) \/ isArray(value) THEN Undefined
    ELSE LET entries == [i \in 1..Len(value.entries) |->
                            [k |-> toLowerCase(value.entries[i].k),
                             v |-> value.entries[i].v]]
         IN IF \E i \in 1..Len(entries) : entries[i].k = Star /\ EqTrue(entries[i].v)
            THEN Undefined
            ELSE Dict(fromEntries(entries))

\* getAllowedExtensionsValue with a value that is no mapping loaded as an
\* empty table
getAllowedExtensionsValue_emptyTable(value) ==
    IF ~isObject(value) \/ isArray(value) THEN Dict(<< >>)
    ELSE LET entries == [i \in 1..Len(value.entries) |->
                            [k |-> toLowerCase(value.entries[i].k),
                             v |-> value.entries[i].v]]
         IN IF Len(entries) = 1 /\ entries[1].k = Star /\ EqTrue(entries[1].v)
            THEN Undefined
            ELSE Dict(fromEntries(entries))

\* getAllowedExtensionsValue with the empty mapping collapsed to "no policy" too
getAllowedExtensionsValue_collapseEmpty(value) ==
    IF ~isObject(value) \/ isArray(value) THEN Undefined
    ELSE LET entries == [i \in 1..Len(value.entries) |->
                            [k |-> toLowerCase(value.entries[i].k),
                             v |-> value.entries[i].v]]
         IN IF \/ Len(entries) = 0
               \/ Len(entries) = 1 /\ entries[1].k = Star /\ EqTrue(entries[1].v)
            THEN Undefined
            ELSE Dict(fromEntries(entries))

\* getAllowedExtensionsValue(), value being what the configuration service holds
getAllowedExtensionsValue(value) ==
    IF ~isObject(value) \/ isArray(value) THEN Undefined
    ELSE LET entries == [i \in 1..Len(value.entries) |->
                            [k |-> toLowerCase(value.entries[i].k),
                             v |-> value.entries[i].v]]
         IN IF Len(entries) = 1 /\ entries[1].k = Star /\ EqTrue(entries[1].v)
            THEN Undefined
            ELSE Dict(fromEntries(entries))

\* versionMatches with the platform of the descriptor never looked at
versionMatches_anyPlatform(v, version, targetPlatform) ==
    LET match == VersionRegex(v) IN
    IF match.t = "match" THEN match.groups.version = version ELSE FALSE

\* versionMatches with the universal target platform compared like any other
versionMatches_universalCompared(v, version, targetPlatform) ==
    LET match == VersionRegex(v) IN
    IF match.t = "match"
    THEN LET p == match.groups.platform IN
         IF match.groups.version # version THEN FALSE
         ELSE IF ~isUndefined(p) /\ targetPlatform # p.str THEN FALSE
         ELSE TRUE
    ELSE FALSE

\* the callback of extensionValue.some(...): does the version descriptor v
\* of the list allow this version on this target platform
versionMatches(v, version, targetPlatform) ==
    LET match == VersionRegex(v) IN
    IF match.t = "match"
    THEN LET p == match.groups.platform IN
         IF match.groups.version # version THEN FALSE
         ELSE IF targetPlatform # UNIVERSAL /\ ~isUndefined(p) /\ targetPlatform # p.str
              THEN FALSE
         ELSE TRUE
    ELSE FALSE

\* extensionVerdict with the generic reason given for a pre-release too
extensionVerdict_genericReason(extensionValue, f) ==
    IF isBoolean(extensionValue)
    THEN (IF extensionValue.bool THEN True ELSE extensionReason)
    ELSE IF EqString(extensionValue, Release) /\ f.prerelease
    THEN extensionReason
    ELSE IF /\ f.version # Star
            /\ isArray(extensionValue)
            /\ ~\E i \in 1..Len(extensionValue.items) :
                    versionMatches(extensionValue.items[i], f.version, f.targetPlatform)
    THEN extensionReason
    ELSE True

\* extensionVerdict with the list consulted for the version '*' too
extensionVerdict_starListed(extensionValue, f) ==
    IF isBoolean(extensionValue)
    THEN (IF extensionValue.bool THEN True ELSE extensionReason)
    ELSE IF EqString(extensionValue, Release) /\ f.prerelease
    THEN extensionPrereleaseReason
    ELSE IF /\ isArray(extensionValue)
            /\ ~\E i \in 1..Len(extensionValue.items) :
                    versionMatches(extensionValue.items[i], f.version, f.targetPlatform)
    THEN extensionReason
    ELSE True

\* the verdict of an id-level entry
extensionVerdict(extensionValue, f) ==
    IF isBoolean(extensionValue)
    THEN (IF extensionValue.bool THEN True ELSE extensionReason)
    ELSE IF EqString(extensionValue, Release) /\ f.prerelease
    THEN extensionPrereleaseReason
    ELSE IF /\ f.version # Star
            /\ isArray(extensionValue)
            /\ ~\E i \in 1..Len(extensionValue.items) :
                    versionMatches(extensionValue.items[i], f.version, f.targetPlatform)
    THEN extensionReason
    ELSE True

\* normalizePublisher with the publisher mappings never looked at
normalizePublisher_noMapping(mappings, publisher) == publisher

\* publisher = (this.publisherMappings[publisher])?.toLowerCase() ?? publisher
normalizePublisher(mappings, publisher) ==
    IF publisher \in DOMAIN mappings THEN toLowerCase(mappings[publisher]) ELSE publisher

\* publisherVerdict with a version list applied as at the id level
publisherVerdict_versionList(publisherValue, f) ==
    IF isBoolean(publisherValue)
    THEN (IF publisherValue.bool THEN True ELSE publisherReason)
    ELSE IF EqString(publisherValue, Release) /\ f.prerelease
    THEN publisherPrereleaseReason
    ELSE IF /\ f.version # Star
            /\ isArray(publisherValue)
            /\ ~\E i \in 1..Len(publisherValue.items) :
                    versionMatches(publisherValue.items[i], f.version, f.targetPlatform)
    THEN publisherReason
    ELSE True

\* the verdict of a publisher-level entry
publisherVerdict(publisherValue, f) ==
    IF isBoolean(publisherValue)
    THEN (IF publisherValue.bool THEN True ELSE publisherReason)
    ELSE IF EqString(publisherValue, Release) /\ f.prerelease
    THEN publisherPrereleaseReason
    ELSE True

\* wildcardVerdict with any truthy '*' entry accepted
wildcardVerdict_truthy(allowed) ==
    LET star == Get(allowed, Star) IN
    IF star.t \in {"string", "array", "object"} \/ EqTrue(star)
    THEN True ELSE extensionReason

\* the end of isAllowed: the '*' entry, then the denial
wildcardVerdict(allowed) ==
    IF EqTrue(Get(allowed, Star)) THEN True ELSE extensionReason

\* isAllowed with the publisher-level entry looked up before the id-level one
isAllowed_publisherFirst(allowed, mappings, e) ==
    IF isUndefined(allowed) THEN True
    ELSE LET f == Fields(e)
             extensionValue == Get(allowed.at, f.id)
             publisher == normalizePublisher(mappings, f.publisher)
             publisherValue == Get(allowed.at, publisher)
         IN IF ~isUndefined(publisherValue)
            THEN publisherVerdict(publisherValue, f)
            ELSE IF ~isUndefined(extensionValue)
            THEN extensionVerdict(extensionValue, f)
            ELSE wildcardVerdict(allowed.at)

\* isAllowed(e) of a service whose fields are allowed and mappings
isAllowed(allowed, mappings, e) ==
    IF isUndefined(allowed) THEN True
    ELSE LET f == Fields(e)
             extensionValue == Get(allowed.at, f.id)
         IN IF ~isUndefined(extensionValue)
            THEN extensionVerdict(extensionValue, f)
            ELSE LET publisher == normalizePublisher(mappings, f.publisher)
                     publisherValue == Get(allowed.at, publisher)
                 IN IF ~isUndefined(publisherValue)
                    THEN publisherVerdict(publisherValue, f)
                    ELSE wildcardVerdict(allowed.at)

(***************************************************************************)
(* Inputs: the strings the configurations and the extensions are made of   *)
(***************************************************************************)
pub_ext == <<"p", "u", "b", ".", "e", "x", "t">>
Pub_Ext == <<"P", "u", "b", ".", "E", "x", "t">>
old_ext == <<"o", "l", "d", ".", "e", "x", "t">>
Old_Ext == <<"O", "l", "d", ".", "E", "x", "t">>
pub == <<"p", "u", "b">>
Pub == <<"P", "u", "b">>
old == <<"o", "l", "d">>
Old == <<"O", "l", "d">>
new == <<"n", "e", "w">>
New == <<"N", "e", "w">>
win32 == <<"w", "i", "n", "3", "2">>
linux == <<"l", "i", "n", "u", "x">>
v1_0_0 == <<"1", ".", "0", ".", "0">>
v2_0_0 == <<"2", ".", "0", ".", "0">>
v1_2_3 == <<"1", ".", "2", ".", "3">>
v1_2_4 == <<"1", ".", "2", ".", "4">>
v1_2_3_b == <<"1", ".", "2", ".", "3", "-", "b">>
v1_2 == <<"1", ".", "2">>
At(version, platform) == version \o <<"@">> \o platform

\* the sequences of at most n elements of S
SeqUpTo(S, n) == UNION {[1..k -> S] : k \in 0..n}

(***************************************************************************)
(* Inputs of Spec: configurations that exercise the id, publisher and      *)
(* '*' levels                                                              *)
(***************************************************************************)
\* productService.extensionPublisherMappings
ProductMappings == {<< >>, <<[k |-> Old, v |-> New]>>}

\* the keys a configured mapping may have, in the order they are written
Keys == <<Old_Ext, pub, old, new, Star>>

Values == {Bool(TRUE), Bool(FALSE), Str(Release), Arr(<<v1_0_0>>)}

\* the values of the setting that are no mapping
NonMappings == {Undefined, Null, Bool(TRUE), Num(1), Str(Release), Arr(<<pub_ext>>)}

\* the mapping that gives the keys Keys[i], i in I, the values val[i]
Mapping(I, val) ==
    LET n == Cardinality(I)
        \* the i-th smallest element of I
        nth[i \in 1..n] == CHOOSE k \in I : Cardinality({j \in I : j < k}) = i - 1
    IN Obj([i \in 1..n |-> [k |-> Keys[nth[i]], v |-> val[nth[i]]]])

Mappings ==
    {Mapping(I, val) : I \in {J \in SUBSET DOMAIN Keys : Cardinality(J) <= MaxEntries},
                       val \in [DOMAIN Keys -> Values]}

Configurations == NonMappings \cup Mappings

\* the positions in Keys of the keys of a mapping
KeysOf(c) == {k \in DOMAIN Keys : \E i \in 1..Len(c.entries) : c.entries[i].k = Keys[k]}

\* the value a mapping gives the key Keys[k]
ValueAt(c, k) ==
    c.entries[CHOOSE i \in 1..Len(c.entries) : c.entries[i].k = Keys[k]].v

\* the mapping c with Keys[k] set to v
WithKey(c, k, v) ==
    Mapping(KeysOf(c) \cup {k},
            [j \in DOMAIN Keys |-> IF j # k /\ j \in KeysOf(c) THEN ValueAt(c, j) ELSE v])

\* the mapping c without Keys[k]
WithoutKey(c, k) ==
    Mapping(KeysOf(c) \ {k},
            [j \in DOMAIN Keys |-> IF j \in KeysOf(c) THEN ValueAt(c, j) ELSE Undefined])

\* what one edit of the setting can make of the value c: any value that is
\* no mapping, the empty mapping, or c with one key set or removed
Edits(c) ==
    NonMappings \cup {Obj(<< >>)} \cup
    (IF c.t = "object"
     THEN {WithKey(c, k, v) :
              k \in {j \in DOMAIN Keys : Cardinality(KeysOf(c) \cup {j}) <= MaxEntries},
              v \in Values}
          \cup {WithoutKey(c, k) : k \in KeysOf(c)}
     ELSE {})

Extensions ==
    {[id |-> id, version |-> x[1], prerelease |-> x[2], targetPlatform |-> Undefined] :
        id \in {pub_ext, Old_Ext},
        x \in {<<Undefined, Undefined>>, <<Str(v2_0_0), Undefined>>,
               <<Str(v2_0_0), Bool(TRUE)>>}}
    \cup
    {[type |-> "gallery", identifier |-> [id |-> x[1]], version |-> v1_0_0,
      publisher |-> x[2],
      properties |-> [isPreReleaseVersion |-> prerelease, targetPlatform |-> UNIVERSAL]] :
        x \in {<<Pub_Ext, Pub>>, <<old_ext, Old>>}, prerelease \in BOOLEAN}
    \cup
    {[type |-> x[1], identifier |-> [id |-> x[2]],
      manifest |-> [version |-> v2_0_0, publisher |-> x[3]],
      preRelease |-> x[4], targetPlatform |-> win32] :
        x \in {<<"User", pub_ext, pub, FALSE>>, <<"System", Old_Ext, old, TRUE>>}}

(***************************************************************************)
(* Inputs of SpecVersions: a list of version descriptors for pub.ext       *)
(***************************************************************************)
VersionDescriptors ==
    {v1_2_3, At(v1_2_3, win32), At(v1_2_3, UNIVERSAL), At(v1_2_3_b, win32),
     At(v1_2_4, linux), v1_2}

VersionMapping(list) == Obj(<<[k |-> Pub_Ext, v |-> Arr(list)]>>)

VersionConfigurations ==
    {VersionMapping(list) : list \in SeqUpTo(VersionDescriptors, MaxVersions)}

\* one edit of the list: a descriptor added at its end, or its last one removed
VersionEdits(c) ==
    LET list == c.entries[1].v.items IN
    {m \in VersionConfigurations :
        \/ \E d \in VersionDescriptors : m = VersionMapping(Append(list, d))
        \/ list # << >> /\ m = VersionMapping(SubSeq(list, 1, Len(list) - 1))}

VersionExtensions ==
    {[id |-> pub_ext, version |-> version, prerelease |-> Undefined,
      targetPlatform |-> targetPlatform] :
        version \in {Undefined, Str(v1_2_3), Str(v1_2_3_b), Str(v1_2)},
        targetPlatform \in {Undefined, Str(win32), Str(linux)}}
    \cup
    {[id |-> pub_ext, version |-> Str(v1_2_3), prerelease |-> Undefined,
      targetPlatform |-> Str(UNIVERSAL)]}
    \cup
    {[id |-> pub_ext, version |-> Str(Star), prerelease |-> Undefined,
      targetPlatform |-> Str(win32)]}
    \cup
    {[type |-> "gallery", identifier |-> [id |-> Pub_Ext], version |-> v1_2_3,
      publisher |-> Pub,
      properties |-> [isPreReleaseVersion |-> FALSE, targetPlatform |-> targetPlatform]] :
        targetPlatform \in {win32, UNIVERSAL}}
    \cup
    {[type |-> "User", identifier |-> [id |-> pub_ext],
      manifest |-> [version |-> v1_2_3, publisher |-> pub],
      preRelease |-> FALSE, targetPlatform |-> linux]}

(***************************************************************************)
(* The state machine                                                       *)
(***************************************************************************)
\* the state the constructor of FocusTracker leaves
FocusTrackerConstructed ==
    /\ isFocused = FALSE
    /\ focusChanges = << >>
    /\ dispatched = << >>
    /\ disposed = FALSE

\* a repository of the model, known by its root
Repository(root) == [t |-> "repository", root |-> root]

Repositories == {Repository("r1"), Repository("r2")}

\* the state the constructor of GitBlameController leaves, the model having
\* the repositories open
GitBlameControllerConstructed(open) ==
    /\ repositories = open
    /\ repositoryDisposables = {}
    /\ repositoryBlameInformation = [repository \in Repositories |-> Undefined]
    /\ textEditorBlameInformation = {}
    /\ blameCall = Undefined

\* the state the constructor leaves, for the product's publisher mappings
\* and the value the setting has at that time
Constructed(mappings, value) ==
    /\ publisherMappings = lowerCaseMappings(mappings)
    /\ configuration = value
    /\ allowedExtensions = getAllowedExtensionsValue(value)
    /\ fired = 0
    /\ extension = Undefined
    /\ result = Undefined
    /\ affects = Undefined
    /\ pending = << >>
    /\ seen = << >>

Init ==
    /\ \E mappings \in ProductMappings, value \in Configurations :
            Constructed(mappings, value)
    /\ FocusTrackerConstructed
    /\ GitBlameControllerConstructed({})

InitVersions ==
    /\ \E value \in VersionConfigurations : Constructed(<< >>, value)
    /\ FocusTrackerConstructed
    /\ GitBlameControllerConstructed({})

\* the listener with the table patched by the new value instead of replaced:
\* the keys the new value has not keep their entries
OnDidChangeConfiguration_patched(value) ==
    /\ configuration' = value
    /\ allowedExtensions' =
            LET loaded == getAllowedExtensionsValue(value) IN
            IF loaded.t = "dictionary" /\ allowedExtensions.t = "dictionary"
            THEN Dict(loaded.at @@ allowedExtensions.at)
            ELSE loaded
    /\ fired' = 1
    /\ affects' = Bool(TRUE)
    /\ seen' = <<allowedExtensions'>>
    /\ extension' = Undefined
    /\ result' = Undefined
    /\ UNCHANGED <<publisherMappings, pending, focusVars, blameVars>>

\* the listener of configurationService.onDidChangeConfiguration, run from
\* its first statement to its last, for an event that affects
\* AllowedExtensionsConfigKey, the setting now being value
OnDidChangeConfiguration(value) ==
    /\ configuration' = value
    /\ allowedExtensions' = getAllowedExtensionsValue(value)
    /\ fired' = 1
    /\ affects' = Bool(TRUE)
    /\ seen' = <<allowedExtensions'>>
    /\ extension' = Undefined
    /\ result' = Undefined
    /\ UNCHANGED <<publisherMappings, pending, focusVars, blameVars>>

\* a call of isAllowed(e)
IsAllowed(e) ==
    /\ extension' = e
    /\ result' = isAllowed(allowedExtensions, publisherMappings, e)
    /\ UNCHANGED <<configuration, allowedExtensions, publisherMappings, fired,
                   affects, pending, seen, focusVars, blameVars>>

Next ==
    \/ \E value \in Edits(configuration) : OnDidChangeConfiguration(value)
    \/ \E e \in Extensions : IsAllowed(e)

Spec == Init /\ [][Next]_vars

NextVersions ==
    \/ \E value \in VersionEdits(configuration) : OnDidChangeConfiguration(value)
    \/ \E e \in VersionExtensions : IsAllowed(e)

SpecVersions == InitVersions /\ [][NextVersions]_vars

(***************************************************************************)
(* SpecEvents: the configuration listener statement by statement, for      *)
(* events that affect the setting and events that do not                   *)
(***************************************************************************)
\* the values the setting takes in SpecEvents
EventConfigurations ==
    {Undefined, Obj(<< >>),
     Obj(<<[k |-> Star, v |-> Bool(TRUE)]>>),
     Obj(<<[k |-> Pub, v |-> Bool(FALSE)]>>),
     Obj(<<[k |-> Pub, v |-> Bool(TRUE)]>>),
     Obj(<<[k |-> Old_Ext, v |-> Bool(TRUE)], [k |-> New, v |-> Bool(FALSE)]>>)}

EventExtensions ==
    {[id |-> pub_ext, version |-> Undefined, prerelease |-> Undefined,
      targetPlatform |-> Undefined],
     [id |-> Old_Ext, version |-> Undefined, prerelease |-> Undefined,
      targetPlatform |-> Undefined],
     [type |-> "gallery", identifier |-> [id |-> old_ext], version |-> v1_0_0,
      publisher |-> Old,
      properties |-> [isPreReleaseVersion |-> FALSE, targetPlatform |-> UNIVERSAL]]}

\* the listener that reloads and fires for every event
listenerBody_anyEvent(affectsConfiguration) == <<"reload", "fire">>

\* the listener that fires before it reloads
listenerBody_fireFirst(affectsConfiguration) ==
    IF affectsConfiguration THEN <<"fire", "reload">> ELSE << >>

\* the statements the listener executes for an event, in their order:
\* "reload" is this.allowedExtensions = this.getAllowedExtensionsValue(),
\* "fire" is this._onDidChangeAllowedExtensions.fire()
listenerBody(affectsConfiguration) ==
    IF affectsConfiguration THEN <<"reload", "fire">> ELSE << >>

InitEvents ==
    /\ \E mappings \in ProductMappings, value \in EventConfigurations :
            Constructed(mappings, value)
    /\ FocusTrackerConstructed
    /\ GitBlameControllerConstructed({})

\* configurationService emits onDidChangeConfiguration, the setting now being
\* value, and the listener is entered: it asks the event whether it affects
\* AllowedExtensionsConfigKey
ConfigurationChanged(affectsConfiguration, value) ==
    /\ pending = << >>
    /\ configuration' = value
    /\ affects' = Bool(affectsConfiguration)
    /\ pending' = listenerBody(affectsConfiguration)
    /\ fired' = 0
    /\ seen' = << >>
    /\ extension' = Undefined
    /\ result' = Undefined
    /\ UNCHANGED <<allowedExtensions, publisherMappings, focusVars, blameVars>>

\* the running listener executes its next statement; the listeners of
\* onDidChangeAllowedExtensions run inside fire()
ListenerStep ==
    /\ pending # << >>
    /\ pending' = Tail(pending)
    /\ IF Head(pending) = "reload"
       THEN /\ allowedExtensions' = getAllowedExtensionsValue(configuration)
            /\ UNCHANGED <<fired, seen>>
       ELSE /\ fired' = fired + 1
            /\ seen' = Append(seen, allowedExtensions)
            /\ UNCHANGED allowedExtensions
    /\ UNCHANGED <<configuration, publisherMappings, affects, extension, result,
                   focusVars, blameVars>>

\* a call of isAllowed(e) from outside the listener: it runs when no listener
\* does
IsAllowedBetweenEvents(e) ==
    /\ pending = << >>
    /\ IsAllowed(e)

NextEvents ==
    \/ \E affectsConfiguration \in BOOLEAN, value \in EventConfigurations :
            ConfigurationChanged(affectsConfiguration, value)
    \/ ListenerStep
    \/ \E e \in EventExtensions : IsAllowedBetweenEvents(e)

SpecEvents == InitEvents /\ [][NextEvents]_vars

(***************************************************************************)
(* SpecFocus: FocusTracker                                                 *)
(***************************************************************************)
\* _handleFocusedChanged without its early return
HandleFocusedChanged_everyEvent(focused) ==
    /\ isFocused' = focused
    /\ focusChanges' = Append(focusChanges, isFocused')

\* _handleFocusedChanged(focused)
HandleFocusedChanged(focused) ==
    IF isFocused = focused
    THEN UNCHANGED <<isFocused, focusChanges>>
    ELSE /\ isFocused' = focused
         /\ focusChanges' = Append(focusChanges, isFocused')

InitFocus ==
    /\ FocusTrackerConstructed
    /\ Constructed(<< >>, Undefined)
    /\ GitBlameControllerConstructed({})

\* an event of this type, 'focus' or 'blur', is dispatched on _domNode: the
\* listener the constructor registered for it runs, unless dispose() has
\* removed it
Dispatch(type) ==
    /\ Len(dispatched) < MaxDomEvents
    /\ dispatched' = Append(dispatched, type)
    /\ IF disposed
       THEN UNCHANGED <<isFocused, focusChanges>>
       ELSE HandleFocusedChanged(type = "focus")
    /\ UNCHANGED <<disposed, serviceVars, blameVars>>

\* focus(): _domNode.focus() gives the node the focus, and a 'focus' event is
\* dispatched on it
Focus ==
    /\ Len(dispatched) < MaxDomEvents
    /\ Dispatch("focus")

\* dispose(): the two registered listeners are removed
Dispose ==
    /\ ~disposed
    /\ disposed' = TRUE
    /\ UNCHANGED <<isFocused, focusChanges, dispatched, serviceVars, blameVars>>

NextFocus ==
    \/ \E type \in {"focus", "blur"} : Dispatch(type)
    \/ Focus
    \/ Dispose

SpecFocus == InitFocus /\ [][NextFocus]_vars

(***************************************************************************)
(* SpecBlame: the cache of blame information of GitBlameController.        *)
(* A Map is a function on all its possible keys, undefined where the map   *)
(* has no entry, as Map.get answers.  What repository.blame2 returns is    *)
(* left out of the cached entries: they are looked up by resource and      *)
(* commit only.                                                            *)
(***************************************************************************)
\* the documents of the text editors, and the repository each one is in
Resources == {[repository |-> Repository("r1"), fsPath |-> "r1/a"],
              [repository |-> Repository("r2"), fsPath |-> "r2/a"]}

\* the commits repository.HEAD.commit can be
Commits == {"c1", "c2"}

\* this._model.getRepository(resource)
getRepository(resource) ==
    IF resource.repository \in repositories THEN resource.repository ELSE Undefined

\* x ?? []
OrEmpty(x) == IF isUndefined(x) THEN << >> ELSE x.items

InitBlame ==
    /\ \E open \in SUBSET Repositories : GitBlameControllerConstructed(open)
    /\ Constructed(<< >>, Undefined)
    /\ FocusTrackerConstructed

\* the model opens the repository and _onDidOpenRepository(repository) runs
OnDidOpenRepository(repository) ==
    /\ repository \notin repositories
    /\ repositories' = repositories \cup {repository}
    /\ repositoryDisposables' = repositoryDisposables \cup {repository}
    /\ UNCHANGED <<repositoryBlameInformation, textEditorBlameInformation, blameCall,
                   serviceVars, focusVars>>

\* the model closes the repository and _onDidCloseRepository(repository) runs
OnDidCloseRepository(repository) ==
    /\ repository \in repositories
    /\ repositories' = repositories \ {repository}
    /\ repositoryDisposables' = repositoryDisposables \ {repository}
    /\ repositoryBlameInformation' =
            [repositoryBlameInformation EXCEPT ![repository] = Undefined]
    /\ UNCHANGED <<textEditorBlameInformation, blameCall, serviceVars, focusVars>>

\* _updateTextEditorBlameInformation(textEditor) for an editor of the
\* resource, HEAD being at the commit, up to the await of repository.blame2
\* in _getBlameInformation, or to its end when the blame information is
\* cached.  The method is throttled: it starts when no run of it is under
\* way.  Its early returns change nothing.
UpdateTextEditorBlameInformation(resource, commit) ==
    /\ blameCall = Undefined
    /\ getRepository(resource) # Undefined
    /\ LET repository == getRepository(resource)
           cached == OrEmpty(repositoryBlameInformation[repository])
       IN IF \E i \in 1..Len(cached) :
                    cached[i].resource = resource /\ cached[i].commit = commit
          THEN /\ textEditorBlameInformation' = textEditorBlameInformation \cup {resource}
               /\ UNCHANGED blameCall
          ELSE /\ blameCall' = [t |-> "call", repository |-> repository,
                                resource |-> resource, commit |-> commit,
                                repositoryBlameInformation |-> cached]
               /\ UNCHANGED textEditorBlameInformation
    /\ UNCHANGED <<repositories, repositoryDisposables, repositoryBlameInformation,
                   serviceVars, focusVars>>

\* repository.blame2 settles and the awaiting call goes on to its end: when
\* the promise is fulfilled the entry is pushed and the array is set in the
\* map, and _updateTextEditorBlameInformation sets the blame information of
\* the editor; when it is rejected both methods end there
Blame2Settled(fulfilled) ==
    /\ blameCall # Undefined
    /\ blameCall' = Undefined
    /\ IF fulfilled
       THEN /\ repositoryBlameInformation' =
                    [repositoryBlameInformation EXCEPT ![blameCall.repository] =
                        Arr(Append(blameCall.repositoryBlameInformation,
                                   [commit |-> blameCall.commit,
                                    resource |-> blameCall.resource]))]
            /\ textEditorBlameInformation' =
                    textEditorBlameInformation \cup {blameCall.resource}
       ELSE UNCHANGED <<repositoryBlameInformation, textEditorBlameInformation>>
    /\ UNCHANGED <<repositories, repositoryDisposables, serviceVars, focusVars>>

NextBlame ==
    \/ \E repository \in Repositories : OnDidOpenRepository(repository)
    \/ \E repository \in Repositories : OnDidCloseRepository(repository)
    \/ \E resource \in Resources, commit \in Commits :
            UpdateTextEditorBlameInformation(resource, commit)
    \/ \E fulfilled \in BOOLEAN : Blame2Settled(fulfilled)

SpecBlame == InitBlame /\ [][NextBlame]_vars

(***************************************************************************)
(* Properties                                                              *)
(***************************************************************************)
\* the latest step is a call of isAllowed
Called == extension # Undefined

\* a policy table is loaded
Loaded == allowedExtensions.t = "dictionary"

\* the fields of the extension of the call
CallFields == Fields(extension)

\* the call is for an extension whose lowercase id has an entry in the table
HasIdEntry == Called /\ Loaded /\ CallFields.id \in DOMAIN allowedExtensions.at

\* the call is for an extension whose lowercase id has no entry in the table
HasNoIdEntry == Called /\ Loaded /\ CallFields.id \notin DOMAIN allowedExtensions.at

\* the table d with only its keys in S
Restrict(d, S) == Dict([k \in S \cap DOMAIN d |-> d[k]])

\* the canonical name of a lowercase publisher: its alias when it has one
Canonical(publisher) ==
    IF publisher \in DOMAIN publisherMappings
    THEN publisherMappings[publisher] ELSE publisher

\* what a publisher-level entry is to decide
ExpectedPublisherVerdict(value, prerelease) ==
    IF value.t = "boolean" THEN (IF value.bool THEN True ELSE publisherReason)
    ELSE IF value = Str(Release) /\ prerelease THEN publisherPrereleaseReason
    ELSE True

\* what the '*' entry of table d is to decide
ExpectedWildcardVerdict(d) ==
    IF Star \in DOMAIN d /\ d[Star] = Bool(TRUE) THEN True ELSE extensionReason

\* C1: when the table has an entry under the lowercase id of the extension,
\* the verdict is the one of the table cut down to that entry: the publisher
\* entry and the '*' entry change nothing.  An entry false denies and an
\* entry true permits, whatever the publisher entry and the '*' entry say.
C1_IdPrecedence ==
    HasIdEntry =>
        LET id == CallFields.id IN
        /\ result = isAllowed(Restrict(allowedExtensions.at, {id}),
                              publisherMappings, extension)
        /\ allowedExtensions.at[id] = Bool(FALSE) => result = extensionReason
        /\ allowedExtensions.at[id] = Bool(TRUE) => result = True

\* table {"old.ext": false, "new": true}, old being an alias of new: old.ext
\* was denied
C1_Witness ==
    /\ HasIdEntry
    /\ CallFields.id = old_ext
    /\ publisherMappings = (old :> new)
    /\ allowedExtensions.at = (old_ext :> Bool(FALSE) @@ new :> Bool(TRUE))
    /\ result = extensionReason

\* the call is for a concrete version of an extension whose id-level entry
\* is a list of version descriptors
VersionListCall ==
    /\ HasIdEntry
    /\ allowedExtensions.at[CallFields.id].t = "array"
    /\ CallFields.version # Star

\* the version descriptors of that list
CallList == allowedExtensions.at[CallFields.id].items

\* the descriptor v parses and its version part is this version
HasVersion(v, version) ==
    LET match == VersionRegex(v) IN
    match.t = "match" /\ match.groups.version = version

\* the descriptor v parses and has a platform part
HasPlatform(v) ==
    LET match == VersionRegex(v) IN
    match.t = "match" /\ match.groups.platform.t = "string"

\* the platform part of a descriptor that has one
PlatformOf(v) == VersionRegex(v).groups.platform.str

\* C2, as claimed: a concrete version is permitted if and only if some
\* descriptor of the list parses, has that version and, when it has a
\* platform part, has the target platform of the extension.
C2_AsClaimed ==
    VersionListCall =>
        (result = True <=>
            \E i \in 1..Len(CallList) :
                /\ HasVersion(CallList[i], CallFields.version)
                /\ HasPlatform(CallList[i]) =>
                      CallFields.targetPlatform = PlatformOf(CallList[i]))

\* C2, amended: a concrete version is permitted if and only if some
\* descriptor of the list parses, has that version and, when it has a
\* platform part and the target platform of the extension is not universal,
\* has that target platform; it is denied with the generic reason otherwise,
\* so for an empty list and for a list of descriptors that do not parse.
C2_VersionMatching ==
    VersionListCall =>
        /\ result = True <=>
              \E i \in 1..Len(CallList) :
                  /\ HasVersion(CallList[i], CallFields.version)
                  /\ (HasPlatform(CallList[i]) /\ CallFields.targetPlatform # UNIVERSAL) =>
                        CallFields.targetPlatform = PlatformOf(CallList[i])
        /\ result # True => result = extensionReason
        /\ CallList = << >> => result = extensionReason
        /\ (\A i \in 1..Len(CallList) : VersionRegex(CallList[i]) = Null) =>
              result = extensionReason

\* the list has "1.2.3@win32" and version 1.2.3 for linux was denied
C2_Witness ==
    /\ VersionListCall
    /\ \E i \in 1..Len(CallList) : CallList[i] = At(v1_2_3, win32)
    /\ CallFields.version = v1_2_3
    /\ CallFields.targetPlatform = linux
    /\ result = extensionReason

\* C3, as claimed: for a universal target platform, when every descriptor of
\* the list that has the version of the extension is qualified with a
\* platform other than universal, the extension is denied.
C3_AsClaimed ==
    (/\ VersionListCall
     /\ CallFields.targetPlatform = UNIVERSAL
     /\ \A i \in 1..Len(CallList) :
           HasVersion(CallList[i], CallFields.version) =>
              HasPlatform(CallList[i]) /\ PlatformOf(CallList[i]) # UNIVERSAL) =>
        result # True

\* C3, amended: for a universal target platform the platform part of a
\* descriptor is not compared: the extension is permitted if and only if
\* some descriptor of the list parses and has its version, whatever platform
\* it is qualified with, and is denied with the generic reason otherwise.
C3_UniversalIgnoresPlatform ==
    (VersionListCall /\ CallFields.targetPlatform = UNIVERSAL) =>
        /\ result = True <=>
              \E i \in 1..Len(CallList) : HasVersion(CallList[i], CallFields.version)
        /\ result # True => result = extensionReason

\* the list is ["1.2.3@win32"] and version 1.2.3 of a minimal record without
\* a target platform was permitted
C3_Witness ==
    /\ VersionListCall
    /\ ~isGalleryExtension(extension) /\ ~isIExtension(extension)
    /\ extension.targetPlatform = Undefined
    /\ CallList = <<At(v1_2_3, win32)>>
    /\ CallFields.version = v1_2_3
    /\ result = True

\* the pre-release flag of an extension: unset for a minimal record without
\* the field
PrereleaseFlag(e) ==
    IF isGalleryExtension(e) THEN e.properties.isPreReleaseVersion
    ELSE IF isIExtension(e) THEN e.preRelease
    ELSE e.prerelease = Bool(TRUE)

\* C4: when the id-level entry is "release", a pre-release is denied with the
\* reason for pre-releases, which is not the generic reason, and anything
\* else is permitted.
C4_PrereleaseGating ==
    (HasIdEntry /\ allowedExtensions.at[CallFields.id] = Str(Release)) =>
        /\ PrereleaseFlag(extension) => result = extensionPrereleaseReason
        /\ ~PrereleaseFlag(extension) => result = True
        /\ extensionPrereleaseReason # extensionReason

\* entry "release", a pre-release of old.ext was denied
C4_Witness ==
    /\ HasIdEntry
    /\ allowedExtensions.at[CallFields.id] = Str(Release)
    /\ PrereleaseFlag(extension)
    /\ result = extensionPrereleaseReason

\* C5: without an id-level entry the verdict is the one of the entry under
\* the canonical name of the publisher (else of the '*' entry); an entry
\* under the alternate name changes nothing once there is an alias; and the
\* publisher mappings change nothing for an extension with an id-level entry.
C5_PublisherAlias ==
    (Called /\ Loaded) =>
        LET d == allowedExtensions.at
            key == Canonical(CallFields.publisher)
        IN /\ HasNoIdEntry =>
                result = IF key \in DOMAIN d
                         THEN ExpectedPublisherVerdict(d[key], CallFields.prerelease)
                         ELSE ExpectedWildcardVerdict(d)
           /\ (HasNoIdEntry /\ key # CallFields.publisher) =>
                result = isAllowed(Restrict(d, DOMAIN d \ {CallFields.publisher}),
                                   publisherMappings, extension)
           /\ HasIdEntry => result = isAllowed(allowedExtensions, << >>, extension)
           /\ (publisherMappings = (old :> new) /\ d = (new :> Bool(FALSE))
                  /\ CallFields.publisher = old) => result = publisherReason

\* alias old -> new, table {"old": true, "new": false}: an extension of
\* publisher old was denied
C5_Witness ==
    /\ HasNoIdEntry
    /\ CallFields.publisher = old
    /\ publisherMappings = (old :> new)
    /\ allowedExtensions.at = (old :> Bool(TRUE) @@ new :> Bool(FALSE))
    /\ result = publisherReason

\* C6: without an id-level entry and with an entry under the normalized
\* publisher, a boolean permits if and only if true (else the denial for the
\* publisher), "release" denies a pre-release with the publisher pre-release
\* reason, and any other value, a version list included, permits.
C6_PublisherRule ==
    LET key == Canonical(CallFields.publisher) IN
    (HasNoIdEntry /\ key \in DOMAIN allowedExtensions.at) =>
        LET value == allowedExtensions.at[key] IN
        /\ result = ExpectedPublisherVerdict(value, CallFields.prerelease)
        /\ value.t = "array" => result = True

\* the publisher entry is the list ["1.0.0"] and version 2.0.0 was permitted
C6_Witness ==
    /\ HasNoIdEntry
    /\ Canonical(CallFields.publisher) \in DOMAIN allowedExtensions.at
    /\ allowedExtensions.at[Canonical(CallFields.publisher)] = Arr(<<v1_0_0>>)
    /\ CallFields.version = v2_0_0
    /\ result = True

\* C7: with a table loaded that has no entry for the id nor for the
\* normalized publisher, the extension is permitted if and only if the '*'
\* entry is exactly true, and is denied with the generic reason otherwise.
C7_WildcardFallback ==
    LET d == allowedExtensions.at IN
    (HasNoIdEntry /\ Canonical(CallFields.publisher) \notin DOMAIN d) =>
        /\ result = True <=> (Star \in DOMAIN d /\ d[Star] = Bool(TRUE))
        /\ result # True => result = extensionReason

\* the '*' entry is "release" and the extension was denied
C7_Witness ==
    /\ HasNoIdEntry
    /\ Canonical(CallFields.publisher) \notin DOMAIN allowedExtensions.at
    /\ Star \in DOMAIN allowedExtensions.at
    /\ allowedExtensions.at[Star] = Str(Release)
    /\ result = extensionReason

\* the only entry of the mapping is '*': true
OnlyStarTrue == configuration = Obj(<<[k |-> Star, v |-> Bool(TRUE)]>>)

\* C8: the mapping {"*": true} is loaded as "no policy" and every verdict is
\* the one of an absent configuration, permitted; a mapping that has other
\* entries beside '*': true is loaded as a table with all its entries.
C8_Collapse ==
    /\ OnlyStarTrue =>
        /\ allowedExtensions = Undefined
        /\ Called => /\ result = True
                     /\ result = isAllowed(getAllowedExtensionsValue(Undefined),
                                           publisherMappings, extension)
    /\ (/\ configuration.t = "object"
        /\ Len(configuration.entries) > 1
        /\ \E i \in 1..Len(configuration.entries) :
              configuration.entries[i] = [k |-> Star, v |-> Bool(TRUE)]) =>
        /\ Loaded
        /\ DOMAIN allowedExtensions.at =
              {toLowerCase(configuration.entries[i].k) :
                  i \in 1..Len(configuration.entries)}

\* the setting was changed to {"*": true} and an extension was permitted
C8_Witness == OnlyStarTrue /\ fired = 1 /\ Called /\ result = True

\* C9: a configuration value that is no mapping is loaded as "no policy" and
\* every extension is permitted.
C9_Malformed ==
    configuration.t # "object" =>
        /\ allowedExtensions = Undefined
        /\ Called => result = True

\* the setting was changed to an array and an extension was permitted
C9_Witness == configuration.t = "array" /\ fired = 1 /\ Called /\ result = True

\* C10, as claimed: with the empty mapping every extension is permitted.
C10_EmptyPermitted == (configuration = Obj(<< >>) /\ Called) => result = True

\* C10, amended: the empty mapping is loaded as a table without entries, and
\* every extension is denied with the generic reason.
C10_EmptyDenied ==
    configuration = Obj(<< >>) =>
        /\ allowedExtensions = Dict(<< >>)
        /\ Called => result = extensionReason

\* the setting is the empty mapping and an extension was denied
C10_Witness == configuration = Obj(<< >>) /\ Called /\ result = extensionReason

\* C11: when the id-level entry is a list of version descriptors and the
\* version of the extension is '*' (what a minimal record without a version
\* gets), the extension is permitted whatever the list holds: the empty
\* list, or descriptors of other versions and platforms only.
C11_StarBypassesList ==
    (/\ HasIdEntry
     /\ allowedExtensions.at[CallFields.id].t = "array"
     /\ CallFields.version = Star) => result = True

\* table {"pub.ext": []}: the record {id: 'pub.ext', targetPlatform: 'win32'},
\* which has no version, was permitted
C11_Witness ==
    /\ HasIdEntry
    /\ allowedExtensions.at = (pub_ext :> Arr(<< >>))
    /\ extension = [id |-> pub_ext, version |-> Undefined, prerelease |-> Undefined,
                    targetPlatform |-> Str(win32)]
    /\ result = True

\* C15, as claimed: a descriptor '<major>.<minor>.<patch>-<suffix>@<platform>'
\* of the list has the version part '<major>.<minor>.<patch>-<suffix>' and the
\* platform part '<platform>', so an extension of exactly that version and
\* target platform is permitted.
C15_SuffixAndPlatform ==
    VersionListCall =>
        \A i \in 1..Len(CallList) :
            (/\ CallList[i] = At(CallFields.version, CallFields.targetPlatform)
             /\ CoreEnd(CallFields.version) # 0
             /\ CoreEnd(CallFields.version) <= Len(CallFields.version)
             /\ CallFields.version[CoreEnd(CallFields.version)] = "-")
            => /\ HasVersion(CallList[i], CallFields.version)
               /\ HasPlatform(CallList[i])
               /\ PlatformOf(CallList[i]) = CallFields.targetPlatform
               /\ result = True

\* C14: a reload rebuilds the table from the latest value of the setting and
\* nothing else.  After any events that affect the key, the table and every
\* verdict are those of an evaluator just constructed with the same product
\* mappings on the latest value: a key of an earlier value that the latest
\* one has not has no effect, and when the latest value is no mapping
\* everything is permitted.  No step changes the alias table.
C14_ReloadIsRebuild ==
    /\ [](\E mappings \in ProductMappings :
            /\ publisherMappings = lowerCaseMappings(mappings)
            /\ allowedExtensions = getAllowedExtensionsValue(configuration)
            /\ Called =>
                result = isAllowed(getAllowedExtensionsValue(configuration),
                                   lowerCaseMappings(mappings), extension)
            /\ (Called /\ configuration \in NonMappings) => result = True)
    /\ [][publisherMappings' = publisherMappings]_vars

\* after a reload that took the policy away, with the alias old -> new in
\* place, an extension was permitted
C14_Witness ==
    /\ fired = 1
    /\ configuration = Undefined
    /\ publisherMappings = (old :> new)
    /\ Called
    /\ result = True

\* C12: an event that does not affect the allowed-extensions key changes
\* nothing of the evaluator.  In every step that ends with such an event as
\* the latest one, its arrival included, the table is the one of before, the
\* setting is not read again whatever its value has become, nothing is fired
\* and the verdict of every extension is the one of before.
C12_UnrelatedEventIgnored ==
    [][affects' = Bool(FALSE) =>
            /\ allowedExtensions' = allowedExtensions
            /\ pending' = << >>
            /\ fired' = 0
            /\ seen' = << >>
            /\ \A e \in EventExtensions :
                    isAllowed(allowedExtensions', publisherMappings', e)
                        = isAllowed(allowedExtensions, publisherMappings, e)]_vars

\* after an event that does not affect the key, the setting having become a
\* value that would load another table, an extension got the verdict of the
\* table of before, which is not the one the new value would give
C12_Witness ==
    /\ affects = Bool(FALSE)
    /\ fired = 0
    /\ getAllowedExtensionsValue(configuration) # allowedExtensions
    /\ Called
    /\ result = isAllowed(allowedExtensions, publisherMappings, extension)
    /\ result # isAllowed(getAllowedExtensionsValue(configuration),
                          publisherMappings, extension)

\* C13: an event that affects the allowed-extensions key makes the listener
\* fire onDidChangeAllowedExtensions exactly once, and no firing happens
\* otherwise.  At each firing the table has already been replaced by the one
\* of the new value of the setting, so isAllowed called by a listener of the
\* notification gives the verdict of the new configuration.
C13_FireAfterReload ==
    /\ [](/\ fired > 0 => affects = Bool(TRUE)
          /\ (affects = Bool(TRUE) /\ pending = << >>) =>
                /\ fired = 1
                /\ allowedExtensions = getAllowedExtensionsValue(configuration)
          /\ \A i \in 1..Len(seen) :
                /\ seen[i] = getAllowedExtensionsValue(configuration)
                /\ \A e \in EventExtensions :
                        isAllowed(seen[i], publisherMappings, e)
                            = isAllowed(getAllowedExtensionsValue(configuration),
                                        publisherMappings, e))
    /\ [][fired' > fired =>
            /\ fired = 0
            /\ affects = Bool(TRUE)
            /\ allowedExtensions = getAllowedExtensionsValue(configuration)]_vars

\* the listener has run for an event that changed the setting to
\* {"Pub": false}: it fired once, and what the listener of the notification
\* found is the table {"pub": false}
C13_Witness ==
    /\ affects = Bool(TRUE)
    /\ pending = << >>
    /\ fired = 1
    /\ configuration = Obj(<<[k |-> Pub, v |-> Bool(FALSE)]>>)
    /\ seen = <<Dict(pub :> Bool(FALSE))>>

\* C16, as claimed: a repository that _onDidCloseRepository has run for, and
\* that has not been opened again, has no entry in
\* _repositoryBlameInformation, also when a call of _getBlameInformation for
\* it awaited repository.blame2 while it was closed.
C16_ClosedHasNoCache ==
    \A repository \in Repositories :
        repository \notin repositories =>
            isUndefined(repositoryBlameInformation[repository])

\* the last element of a sequence that has one
Last(seq) == seq[Len(seq)]

\* C17: the arguments of the calls of onFocusChange alternate and begin with
\* true, and isFocused is the argument of the latest call, false when there
\* is none.  A call is made only for an event whose value, true for 'focus'
\* and false for 'blur', is not the isFocused of before; an event whose
\* value is the isFocused of before calls nothing.
C17_OnlyChangesReported ==
    /\ [](/\ \A i \in 1..Len(focusChanges) : focusChanges[i] = (i % 2 = 1)
          /\ isFocused = (IF focusChanges = << >> THEN FALSE ELSE Last(focusChanges)))
    /\ [][/\ focusChanges' # focusChanges =>
                /\ dispatched' # dispatched
                /\ (Last(dispatched') = "focus") # isFocused
                /\ focusChanges' = Append(focusChanges, Last(dispatched') = "focus")
          /\ (dispatched' # dispatched /\ (Last(dispatched') = "focus") = isFocused) =>
                focusChanges' = focusChanges]_vars

\* blur, focus, focus, blur, blur, focus: the callback got true, false, true
C17_Witness ==
    /\ dispatched = <<"blur", "focus", "focus", "blur", "blur", "focus">>
    /\ focusChanges = <<TRUE, FALSE, TRUE>>
    /\ isFocused

====
